---- MODULE Spec2Model ----
(***************************************************************************)
(* Model of the Pub/Sub subscriber of prow/pubsub/subscriber/subscriber.go *)
(* (handleMessage, handleProwJob and the three jobHandler resolvers).      *)
(*                                                                         *)
(* Go values are modelled as follows:                                      *)
(*  - a string is a TLA+ string, except job names, which are sequences of  *)
(*    characters so that strings.TrimSpace can be computed;                *)
(*  - a map[string]string is a function whose DOMAIN is its key set; the   *)
(*    nil map and the empty map are both the empty function when the map   *)
(*    is only read, and a map that is written through is a heap cell       *)
(*    (labelMaps) named by an address, address 0 being the nil map;        *)
(*  - a *PodSpec is an address into the heap pods, 0 being nil.            *)
(*                                                                         *)
(* The module also models runAndCommitIfNeeded of                          *)
(* cmd/upstreamautomerge/main.go and the loop of main that calls it, as a  *)
(* specification of its own (SpecCommit) over the variable um.             *)
(***************************************************************************)
EXTENDS Integers, Sequences, FiniteSets, TLC

\* Number of messages in flight at the same time.
MaxMsgs == 2

\* Longest list of steps main runs through runAndCommitIfNeeded.
MaxSteps == 2

----------------------------------------------------------------------------
\* Constants of the source.

prowEventType == "prow.k8s.io/pubsub.EventType"
periodicProwJobEvent == "prow.k8s.io/pubsub.PeriodicProwJobEvent"
presubmitProwJobEvent == "prow.k8s.io/pubsub.PresubmitProwJobEvent"
postsubmitProwJobEvent == "prow.k8s.io/pubsub.PostsubmitProwJobEvent"

\* Error values (the text of the error, without its %q arguments).
NoErr == "nil"
ErrNoAttribute == "unable to find from the attributes"
ErrUnsupported == "unsupported event type"
ErrDecode == "json unmarshal error"
ErrRefsPre == "Refs must be supplied"
ErrRefsPost == "refs must be supplied"
ErrOrg == "org must be supplied"
ErrRepo == "repo must be supplied"
ErrPulls == "at least 1 Pulls is required"
ErrBaseSHA == "baseSHA must be supplied"
ErrBaseRef == "baseRef must be supplied"
ErrMultiple == "matches multiple prow jobs"
ErrNoPeriodic == "failed to find associated periodic job"
ErrNoPresubmit == "failed to find associated presubmit job"
ErrNoPostsubmit == "failed to find associated postsubmit job"
ErrNilSpec == "failed getting prowjob spec"
ErrCluster == "cluster is not allowed"
ErrCreate == "create failed"

\* prowapi.ProwJobState values.
NoState == ""
ErrorState == "error"
TriggeredState == "triggered"

EmptyMap == [k \in {} |-> ""]

----------------------------------------------------------------------------
\* The job catalog (config.Config and the inrepoconfig cache).

\* A job definition (config.JobBase with its Brancher): labels and pod are
\* heap addresses, 0 when the job has no labels / no pod spec.
JobDefs ==
  << [name |-> <<"n">>, cluster |-> "build", branches |-> {},                  labels |-> 1, pod |-> 1],
     [name |-> <<"n">>, cluster |-> "other", branches |-> {},                  labels |-> 0, pod |-> 0],
     [name |-> <<"w">>, cluster |-> "other", branches |-> {},                  labels |-> 0, pod |-> 3],
     [name |-> <<"u">>, cluster |-> "build", branches |-> {"main"},            labels |-> 4, pod |-> 4],
     [name |-> <<"u">>, cluster |-> "other", branches |-> {"release"},         labels |-> 0, pod |-> 0],
     [name |-> <<"d">>, cluster |-> "build", branches |-> {"main"},            labels |-> 6, pod |-> 0],
     [name |-> <<"d">>, cluster |-> "other", branches |-> {"main", "release"}, labels |-> 0, pod |-> 0],
     [name |-> <<"u">>, cluster |-> "build", branches |-> {"main"},            labels |-> 8, pod |-> 0],
     [name |-> <<"d">>, cluster |-> "build", branches |-> {"main"},            labels |-> 0, pod |-> 0],
     [name |-> <<"d">>, cluster |-> "other", branches |-> {"main"},            labels |-> 0, pod |-> 0],
     [name |-> <<"y">>, cluster |-> "build", branches |-> {"main"},            labels |-> 0, pod |-> 0],
     [name |-> <<"y">>, cluster |-> "other", branches |-> {"main", "release"}, labels |-> 0, pod |-> 0],
     [name |-> <<"l">>, cluster |-> "build", branches |-> {},                  labels |-> 13, pod |-> 0] >>

JobIds == 1..Len(JobDefs)

\* The label maps and pod specs of the job definitions as loaded.
InitLabels == [a \in JobIds |->
                 CASE a = 1 -> ("k1" :> "cat")
                   [] a = 4 -> ("k1" :> "cat" @@ "k3" :> "cat")
                   [] a = 13 -> ("k1" :> "cat" @@ "k3" :> "cat")
                   [] OTHER -> EmptyMap]

InitPods == [a \in JobIds |->
               CASE a = 1 -> << << <<"E", "0">> >> >>
                 [] a = 3 -> << <<>> >>
                 [] a = 4 -> << <<>>, << <<"E", "0">> >> >>
                 [] OTHER -> <<>>]

TheOrgRepo == <<"org", "repo">>

\* cfg.AllPeriodics()
AllPeriodics == <<1, 2, 3, 13>>

\* cfg.GetPresubmitsStatic(identifier)
GetPresubmitsStatic(orgRepo) == IF orgRepo = TheOrgRepo THEN <<4, 5, 6, 7>> ELSE <<>>

\* cfg.GetPostsubmitsStatic(identifier)
GetPostsubmitsStatic(orgRepo) == IF orgRepo = TheOrgRepo THEN <<8, 9, 10>> ELSE <<>>

\* pc.GetPresubmits(identifier, baseSHAGetter, headSHAGetters...): the jobs of
\* the repository at that commit, or an error (fails = TRUE).
GetPresubmits(orgRepo, fails) ==
  IF fails THEN [err |-> "inrepoconfig error", jobs |-> <<>>]
  ELSE [err |-> NoErr, jobs |-> IF orgRepo = TheOrgRepo THEN <<4, 6, 11, 12>> ELSE <<>>]

\* pc.GetPostsubmits(identifier, baseSHAGetter)
GetPostsubmits(orgRepo, fails) ==
  IF fails THEN [err |-> "inrepoconfig error", jobs |-> <<>>]
  ELSE [err |-> NoErr, jobs |-> IF orgRepo = TheOrgRepo THEN <<8, 9, 11>> ELSE <<>>]

\* Brancher.CouldRun(branch)
CouldRun(job, branch) == branch \in job.branches

----------------------------------------------------------------------------
\* Events.

NilRefs == [present |-> FALSE, org |-> "", repo |-> "", pulls |-> <<>>,
            baseSHA |-> "", baseRef |-> ""]

IsSpace(c) == c \in {" ", "\t", "\n"}

\* strings.TrimSpace
RECURSIVE TrimLeft(_)
TrimLeft(s) == IF s /= <<>> /\ IsSpace(Head(s)) THEN TrimLeft(Tail(s)) ELSE s

RECURSIVE TrimRight(_)
TrimRight(s) ==
  IF s /= <<>> /\ IsSpace(s[Len(s)]) THEN TrimRight(SubSeq(s, 1, Len(s) - 1)) ELSE s

\* TrimSpace as it would be if it trimmed the leading white space only.
TrimSpace_LeftOnly(s) == TrimLeft(s)

TrimSpace(s) == TrimRight(TrimLeft(s))

ZeroEvent == [name |-> <<>>, refs |-> NilRefs, envs |-> EmptyMap,
              labels |-> EmptyMap, annotations |-> EmptyMap]

\* A byte that is not part of a valid UTF-8 sequence, and U+FFFD, the rune
\* encoding/json puts in its place; job names are sequences of these and of
\* ordinary characters.
InvalidByte == "xFF"

ReplacementChar == "uFFFD"

\* The coercion of a string to valid UTF-8 that json.Marshal and
\* json.Unmarshal apply to every string value.
CoerceUTF8(s) ==
  [i \in DOMAIN s |-> IF s[i] = InvalidByte THEN ReplacementChar ELSE s[i]]

\* A JSON object with the one member k: v, and k: v only if keep (omitempty).
Member(k, v) == (k :> v)

OmitEmpty(k, v, keep) == IF keep THEN Member(k, v) ELSE EmptyMap

\* json.Marshal of a v1.Refs.
MarshalRefs(refs) ==
  Member("org", refs.org) @@ Member("repo", refs.repo)
  @@ OmitEmpty("base_ref", refs.baseRef, refs.baseRef /= "")
  @@ OmitEmpty("base_sha", refs.baseSHA, refs.baseSHA /= "")
  @@ OmitEmpty("pulls", refs.pulls, refs.pulls /= <<>>)

\* The value of member k of the JSON object o, or zero when o has none.
Field(o, k, zero) == IF k \in DOMAIN o THEN o[k] ELSE zero

\* json.Unmarshal of a JSON object into a new v1.Refs.
UnmarshalRefs(o) ==
  [present |-> TRUE, org |-> Field(o, "org", ""), repo |-> Field(o, "repo", ""),
   pulls |-> Field(o, "pulls", <<>>), baseSHA |-> Field(o, "base_sha", ""),
   baseRef |-> Field(o, "base_ref", "")]

\* json.Marshal as it would be if Envs were tagged json:"-".
Marshal_EnvsIgnored(pe) ==
  Member("name", CoerceUTF8(pe.name))
  @@ OmitEmpty("refs", MarshalRefs(pe.refs), pe.refs.present)
  @@ OmitEmpty("labels", pe.labels, pe.labels /= EmptyMap)
  @@ OmitEmpty("annotations", pe.annotations, pe.annotations /= EmptyMap)

\* json.Marshal of a ProwJobEvent by its field tags: the name always, the
\* refs unless nil, each map unless it has no entry.
Marshal(pe) ==
  Member("name", CoerceUTF8(pe.name))
  @@ OmitEmpty("refs", MarshalRefs(pe.refs), pe.refs.present)
  @@ OmitEmpty("envs", pe.envs, pe.envs /= EmptyMap)
  @@ OmitEmpty("labels", pe.labels, pe.labels /= EmptyMap)
  @@ OmitEmpty("annotations", pe.annotations, pe.annotations /= EmptyMap)

\* Message data: bytes that are the JSON text of an object, or are not.
Data(object) == [valid |-> TRUE, object |-> object]

Malformed == [valid |-> FALSE, object |-> EmptyMap]

\* ProwJobEvent.ToMessage: the marshalled event, tagged as a periodic one.
ToMessage(pe) ==
  [Data |-> Data(Marshal(pe)),
   Attributes |-> (prowEventType :> periodicProwJobEvent)]

\* json.Unmarshal of a JSON object into a zero ProwJobEvent: a member the
\* object lacks leaves the field at its zero value.
Unmarshal(o) ==
  [name |-> CoerceUTF8(Field(o, "name", <<>>)),
   refs |-> IF "refs" \in DOMAIN o THEN UnmarshalRefs(o["refs"]) ELSE NilRefs,
   envs |-> Field(o, "envs", EmptyMap),
   labels |-> Field(o, "labels", EmptyMap),
   annotations |-> Field(o, "annotations", EmptyMap)]

\* FromPayload as it would be if the error of json.Unmarshal were dropped: the
\* event is left at its zero value.
FromPayload_ErrorDropped(data) ==
  IF data.valid
  THEN [err |-> NoErr, pe |-> Unmarshal(data.object)]
  ELSE [err |-> NoErr, pe |-> ZeroEvent]

\* ProwJobEvent.FromPayload: json.Unmarshal into a zero ProwJobEvent.
FromPayload(data) ==
  IF data.valid
  THEN [err |-> NoErr, pe |-> Unmarshal(data.object)]
  ELSE [err |-> ErrDecode, pe |-> ZeroEvent]

\* extractFromAttribute
extractFromAttribute(attrs, key) ==
  IF key \in DOMAIN attrs THEN [err |-> NoErr, value |-> attrs[key]]
  ELSE [err |-> ErrNoAttribute, value |-> ""]

----------------------------------------------------------------------------
\* Job specs.

\* prowapi.ProwJobSpec{}
EmptySpec == [job |-> <<>>, cluster |-> "", pod |-> 0, refs |-> NilRefs]

NoResult(err) == [err |-> err, isNil |-> TRUE, spec |-> EmptySpec, labels |-> 0, def |-> 0]

\* pjutil.PeriodicSpec / PresubmitSpec / PostsubmitSpec: the spec is produced
\* from the catalog entry's template and carries its cluster and pod spec.
JobSpec(id, refs) ==
  [job |-> JobDefs[id].name, cluster |-> JobDefs[id].cluster,
   pod |-> JobDefs[id].pod, refs |-> refs]

Resolved(id, refs) ==
  [err |-> NoErr, isNil |-> FALSE, spec |-> JobSpec(id, refs),
   labels |-> JobDefs[id].labels, def |-> id]

----------------------------------------------------------------------------
\* The resolvers (jobHandler.getProwJobSpec).

\* The periodic loop as it would be without its break.
RECURSIVE periodicLoop_NoBreak(_, _)
periodicLoop_NoBreak(jobs, name) ==
  IF jobs = <<>> THEN 0
  ELSE IF periodicLoop_NoBreak(Tail(jobs), name) /= 0
       THEN periodicLoop_NoBreak(Tail(jobs), name)
  ELSE IF JobDefs[Head(jobs)].name = name THEN Head(jobs)
  ELSE 0

\* periodicJobHandler.getProwJobSpec, the loop: the first job of that name.
RECURSIVE periodicLoop(_, _)
periodicLoop(jobs, name) ==
  IF jobs = <<>> THEN 0
  ELSE IF JobDefs[Head(jobs)].name = name THEN Head(jobs)
  ELSE periodicLoop(Tail(jobs), name)

periodicGetProwJobSpec(pe) ==
  LET periodicJob == periodicLoop(AllPeriodics, pe.name) IN
  IF periodicJob = 0 THEN NoResult(ErrNoPeriodic)
  ELSE Resolved(periodicJob, NilRefs)

\* The presubmit loop as it would be if a second match replaced the first.
RECURSIVE presubmitLoop_LastWins(_, _, _, _)
presubmitLoop_LastWins(jobs, branch, name, found) ==
  IF jobs = <<>> THEN [err |-> NoErr, job |-> found]
  ELSE IF ~CouldRun(JobDefs[Head(jobs)], branch)
       THEN presubmitLoop_LastWins(Tail(jobs), branch, name, found)
  ELSE IF JobDefs[Head(jobs)].name = name
       THEN presubmitLoop_LastWins(Tail(jobs), branch, name, Head(jobs))
  ELSE presubmitLoop_LastWins(Tail(jobs), branch, name, found)

\* The presubmit loop as it would be without the branch filter.
RECURSIVE presubmitLoop_NoBranchFilter(_, _, _, _)
presubmitLoop_NoBranchFilter(jobs, branch, name, found) ==
  IF jobs = <<>> THEN [err |-> NoErr, job |-> found]
  ELSE IF JobDefs[Head(jobs)].name = name
       THEN IF found /= 0 THEN [err |-> ErrMultiple, job |-> 0]
            ELSE presubmitLoop_NoBranchFilter(Tail(jobs), branch, name, Head(jobs))
  ELSE presubmitLoop_NoBranchFilter(Tail(jobs), branch, name, found)

\* presubmitJobHandler.getProwJobSpec, the loop over the candidates: found is
\* presubmitJob (0 for nil); the result is the error or the job found.
RECURSIVE presubmitLoop(_, _, _, _)
presubmitLoop(jobs, branch, name, found) ==
  IF jobs = <<>> THEN [err |-> NoErr, job |-> found]
  ELSE IF ~CouldRun(JobDefs[Head(jobs)], branch)
       THEN presubmitLoop(Tail(jobs), branch, name, found)
  ELSE IF JobDefs[Head(jobs)].name = name
       THEN IF found /= 0 THEN [err |-> ErrMultiple, job |-> 0]
            ELSE presubmitLoop(Tail(jobs), branch, name, Head(jobs))
  ELSE presubmitLoop(Tail(jobs), branch, name, found)

\* The presubmit refs checks as they would be with the baseSHA check moved
\* before the pulls check.
presubmitValidate_Reordered(refs) ==
  IF ~refs.present THEN ErrRefsPre
  ELSE IF Len(refs.org) = 0 THEN ErrOrg
  ELSE IF Len(refs.repo) = 0 THEN ErrRepo
  ELSE IF Len(refs.baseSHA) = 0 THEN ErrBaseSHA
  ELSE IF Len(refs.pulls) = 0 THEN ErrPulls
  ELSE IF Len(refs.baseRef) = 0 THEN ErrBaseRef
  ELSE NoErr

\* The refs checks of presubmitJobHandler.getProwJobSpec, in their order.
presubmitValidate(refs) ==
  IF ~refs.present THEN ErrRefsPre
  ELSE IF Len(refs.org) = 0 THEN ErrOrg
  ELSE IF Len(refs.repo) = 0 THEN ErrRepo
  ELSE IF Len(refs.pulls) = 0 THEN ErrPulls
  ELSE IF Len(refs.baseSHA) = 0 THEN ErrBaseSHA
  ELSE IF Len(refs.baseRef) = 0 THEN ErrBaseRef
  ELSE NoErr

\* The candidate list as it would be if the dynamic result were added to the
\* static list.
presubmitCandidates_Merged(orgRepo, pcSet, fails) ==
  LET static == GetPresubmitsStatic(orgRepo)
      dyn == GetPresubmits(orgRepo, fails)
  IN IF pcSet /\ dyn.err = NoErr THEN static \o dyn.jobs ELSE static

\* The candidate list of presubmitJobHandler.getProwJobSpec: pcSet is pc != nil,
\* fails is whether pc.GetPresubmits returns an error.
presubmitCandidates(orgRepo, pcSet, fails) ==
  LET static == GetPresubmitsStatic(orgRepo)
      dyn == GetPresubmits(orgRepo, fails)
  IN IF pcSet /\ dyn.err = NoErr THEN dyn.jobs ELSE static

presubmitGetProwJobSpec(pcSet, fails, pe) ==
  LET refs == pe.refs
      verr == presubmitValidate(refs)
      orgRepo == <<refs.org, refs.repo>>
      m == presubmitLoop(presubmitCandidates(orgRepo, pcSet, fails),
                         refs.baseRef, pe.name, 0)
  IN IF verr /= NoErr THEN NoResult(verr)
     ELSE IF m.err /= NoErr THEN NoResult(m.err)
     ELSE IF m.job = 0 THEN NoResult(ErrNoPresubmit)
     ELSE Resolved(m.job, refs)

\* postsubmitJobHandler.getProwJobSpec, the loop over the candidates.
RECURSIVE postsubmitLoop(_, _, _, _)
postsubmitLoop(jobs, branch, name, found) ==
  IF jobs = <<>> THEN [err |-> NoErr, job |-> found]
  ELSE IF ~CouldRun(JobDefs[Head(jobs)], branch)
       THEN postsubmitLoop(Tail(jobs), branch, name, found)
  ELSE IF JobDefs[Head(jobs)].name = name
       THEN IF found /= 0 THEN [err |-> ErrMultiple, job |-> 0]
            ELSE postsubmitLoop(Tail(jobs), branch, name, Head(jobs))
  ELSE postsubmitLoop(Tail(jobs), branch, name, found)

\* The postsubmit refs checks as they would be with the presubmit's check of
\* the pulls among them.
postsubmitValidate_PullsRequired(refs) ==
  IF ~refs.present THEN ErrRefsPost
  ELSE IF Len(refs.org) = 0 THEN ErrOrg
  ELSE IF Len(refs.repo) = 0 THEN ErrRepo
  ELSE IF Len(refs.pulls) = 0 THEN ErrPulls
  ELSE IF Len(refs.baseSHA) = 0 THEN ErrBaseSHA
  ELSE IF Len(refs.baseRef) = 0 THEN ErrBaseRef
  ELSE NoErr

\* The refs checks of postsubmitJobHandler.getProwJobSpec, in their order.
postsubmitValidate(refs) ==
  IF ~refs.present THEN ErrRefsPost
  ELSE IF Len(refs.org) = 0 THEN ErrOrg
  ELSE IF Len(refs.repo) = 0 THEN ErrRepo
  ELSE IF Len(refs.baseSHA) = 0 THEN ErrBaseSHA
  ELSE IF Len(refs.baseRef) = 0 THEN ErrBaseRef
  ELSE NoErr

postsubmitCandidates(orgRepo, pcSet, fails) ==
  LET static == GetPostsubmitsStatic(orgRepo)
      dyn == GetPostsubmits(orgRepo, fails)
  IN IF pcSet /\ dyn.err = NoErr THEN dyn.jobs ELSE static

postsubmitGetProwJobSpec(pcSet, fails, pe) ==
  LET refs == pe.refs
      verr == postsubmitValidate(refs)
      orgRepo == <<refs.org, refs.repo>>
      m == postsubmitLoop(postsubmitCandidates(orgRepo, pcSet, fails),
                          refs.baseRef, pe.name, 0)
  IN IF verr /= NoErr THEN NoResult(verr)
     ELSE IF m.err /= NoErr THEN NoResult(m.err)
     ELSE IF m.job = 0 THEN NoResult(ErrNoPostsubmit)
     ELSE Resolved(m.job, refs)

\* jh.getProwJobSpec, dispatched on the handler selected by handleMessage.
getProwJobSpec(jh, pcSet, fails, pe) ==
  CASE jh = periodicProwJobEvent -> periodicGetProwJobSpec(pe)
    [] jh = presubmitProwJobEvent -> presubmitGetProwJobSpec(pcSet, fails, pe)
    [] jh = postsubmitProwJobEvent -> postsubmitGetProwJobSpec(pcSet, fails, pe)

\* The allow-list loop as it would be if an empty allow-list allowed every
\* cluster.
clusterIsAllowed_EmptyAllowsAll(allowedClusters, cluster) ==
  \/ Len(allowedClusters) = 0
  \/ \E i \in 1..Len(allowedClusters) :
        allowedClusters[i] = "*" \/ allowedClusters[i] = cluster

\* The allow-list loop of handleProwJob.
clusterIsAllowed(allowedClusters, cluster) ==
  \E i \in 1..Len(allowedClusters) :
     allowedClusters[i] = "*" \/ allowedClusters[i] = cluster

\* pjutil.NewProwJob(spec, labels, annotations): a job with that spec, a copy of
\* the labels and annotations, and no status yet.
NewProwJob(spec, labels, annotations) ==
  [spec |-> spec, labels |-> labels, annotations |-> annotations,
   state |-> NoState, description |-> [text |-> "", err |-> NoErr]]

\* The status as it would be if the description did not depend on the error.
WithStatus_DescriptionKept(pj, err) ==
  [pj EXCEPT !.state = IF err = NoErr THEN TriggeredState ELSE ErrorState,
             !.description =
                [text |-> "Successfully triggered prowjob.", err |-> NoErr]]

\* The status as it would be if the state did not depend on the error.
WithStatus_AlwaysTriggered(pj, err) ==
  [pj EXCEPT !.state = TriggeredState,
             !.description =
                IF err = NoErr
                THEN [text |-> "Successfully triggered prowjob.", err |-> NoErr]
                ELSE [text |-> "Failed creating prowjob: ", err |-> err]]

\* The status reportProwJob sets before it asks the reporter.
WithStatus(pj, err) ==
  [pj EXCEPT !.state = IF err = NoErr THEN TriggeredState ELSE ErrorState,
             !.description =
                IF err = NoErr
                THEN [text |-> "Successfully triggered prowjob.", err |-> NoErr]
                ELSE [text |-> "Failed creating prowjob: ", err |-> err]]

\* Counter.Inc()
Inc(c) == c + 1

\* s.Metrics.ErrorCounter.With(labels): the child counter is looked up, and
\* nothing is called on it.
ErrorCounterWith(c) == c

----------------------------------------------------------------------------
\* Inputs.

Attrs(t) == (prowEventType :> t)

NoAttrs == ("other" :> "x")

Refs(org, repo, pulls, sha, ref) ==
  [present |-> TRUE, org |-> org, repo |-> repo, pulls |-> pulls,
   baseSHA |-> sha, baseRef |-> ref]

\* A ProwJobEvent as its publisher builds it.
Event(name, refs, meta) ==
  [name |-> name, refs |-> refs, envs |-> meta.envs,
   labels |-> meta.labels, annotations |-> meta.annotations]

\* A delivered message, for a subscription with the allow-list allowed; event
\* is the ProwJobEvent its publisher encoded, if it encoded one.
Message(attrs, payload, event, allowed) ==
  [attrs |-> attrs, payload |-> payload, event |-> event, allowedClusters |-> allowed]

\* A message that is not the encoding of an event.
Garbage(attrs, allowed) == Message(attrs, Malformed, ZeroEvent, allowed)

\* The encoding of the event pe, published under the attributes attrs.
Published(attrs, pe, allowed) == Message(attrs, ToMessage(pe).Data, pe, allowed)

MainRefs == Refs("org", "repo", <<"head">>, "sha", "main")

\* The envs, labels and annotations an event supplies.
Metas ==
  { [envs |-> EmptyMap, labels |-> EmptyMap, annotations |-> EmptyMap],
    [envs |-> ("E" :> "1"), labels |-> ("k1" :> "a"), annotations |-> ("an" :> "x")],
    [envs |-> ("E" :> "1" @@ "F" :> "2"), labels |-> ("k1" :> "b" @@ "k2" :> "b"),
     annotations |-> EmptyMap] }

AttrSet == {NoAttrs, Attrs("foo"), Attrs(periodicProwJobEvent),
            Attrs(presubmitProwJobEvent), Attrs(postsubmitProwJobEvent)}

NameSet == { <<"n">>, <<"l">>, <<" ", "u", "\t">>, <<"d">>, <<"y">>, <<"w", " ">>, <<"x">>,
             <<"n", InvalidByte>> }

RefsSet ==
  {NilRefs} \cup
  { Refs(o, r, p, s, b) : o \in {"", "org"}, r \in {"", "repo"},
                          p \in {<<>>, <<"head">>}, s \in {"", "sha"},
                          b \in {"", "main", "release"} }

AllowedSet == { <<>>, <<"*">>, <<"other">>, <<"other", "build">> }

\* One message handled alone: every combination of the above.
OneInputs ==
  { Garbage(a, <<"*">>) : a \in AttrSet } \cup
  { Published(a, Event(n, r, mt), al) :
      a \in AttrSet, n \in NameSet, r \in RefsSet, mt \in Metas, al \in AllowedSet }

MetaA == [envs |-> ("E" :> "1"), labels |-> ("k1" :> "a"), annotations |-> ("an" :> "x")]

MetaB == [envs |-> ("F" :> "2"), labels |-> ("k1" :> "b"), annotations |-> EmptyMap]

Periodic(name, meta, allowed) ==
  Published(ToMessage(Event(name, NilRefs, meta)).Attributes,
            Event(name, NilRefs, meta), allowed)

\* Messages handled concurrently: events for the periodic job "l", which has
\* labels and no pod spec, and a message nothing handles.
ManyInputs ==
  << Periodic(<<"l">>, MetaA, <<"*">>), Periodic(<<"l">>, MetaB, <<"build">>),
     Garbage(Attrs("foo"), <<"*">>) >>

\* Two messages handled concurrently: events for the periodic job "n", which
\* has labels and a pod spec.
PairInputs ==
  << Periodic(<<"n">>, MetaA, <<"*">>), Periodic(<<"n">>, MetaB, <<"build">>) >>

\* The batches of n messages out of inputs, up to the order of delivery, which
\* does not matter: the handlers run in any interleaving.
Batches(n, inputs) ==
  { [i \in 1..n |-> inputs[f[i]]] :
      f \in { g \in [1..n -> DOMAIN inputs] :
                \A i \in 1..n, j \in 1..n : i < j => g[i] <= g[j] } }

----------------------------------------------------------------------------
\* State.

VARIABLES
  inbox,             \* the messages delivered: [attrs, payload, event, allowedClusters]
  InRepoConfigCache, \* s.InRepoConfigCache /= nil
  labelMaps,         \* heap of label maps: the catalog's, and one per handler
  pods,              \* heap of pod specs: a sequence of containers' Env lists
  MessageCounter,    \* s.Metrics.MessageCounter for the subscription
  ErrorCounter,      \* s.Metrics.ErrorCounter for the subscription
  h,                 \* per message: the locals of handleMessage / handleProwJob
  log,               \* per message: what its handler called (trace: in which
                     \* order), with what and to what outcome, read and wrote
  um                 \* upstreamautomerge: the locals of main's loop over the
                     \* steps and of runAndCommitIfNeeded, and the calls made

vars == <<inbox, InRepoConfigCache, labelMaps, pods, MessageCounter, ErrorCounter, h, log,
          um>>

\* The variables of the subscriber.
subscriber == <<inbox, InRepoConfigCache, labelMaps, pods, MessageCounter, ErrorCounter,
                h, log>>

Msgs == DOMAIN inbox

\* The address of the map that make(map[string]string) gives handler m.
Fresh(m) == Len(JobDefs) + m

ZeroJob == NewProwJob(EmptySpec, EmptyMap, EmptyMap)

InitH == [at |-> "queued", jh |-> "", pe |-> ZeroEvent, spec |-> EmptySpec,
          labels |-> 0, todo |-> {}, prowJob |-> ZeroJob, i |-> 0, c |-> <<>>,
          cEnv |-> <<>>,
          err |-> NoErr, ret |-> "none"]

InitLog == [resolve |-> 0, create |-> 0, shouldReport |-> 0, report |-> 0,
            reportFailed |-> FALSE, ack |-> 0, nack |-> 0,
            trace |-> <<>>, createErr |-> NoErr, should |-> FALSE,
            reported |-> ZeroJob, decoded |-> ZeroEvent,
            res |-> NoResult(NoErr), dynFailed |-> FALSE, base |-> EmptyMap,
            created |-> [job |-> ZeroJob, containers |-> <<>>],
            offered |-> ZeroJob, reads |-> {}, writes |-> {}]

InitWith(n, batches, inrepo) ==
  /\ inbox \in batches
  /\ InRepoConfigCache \in inrepo
  /\ labelMaps = [a \in 1..(Len(JobDefs) + n) |->
                    IF a \in JobIds THEN InitLabels[a] ELSE EmptyMap]
  /\ pods = InitPods
  /\ MessageCounter = 0
  /\ ErrorCounter = 0
  /\ h = [m \in 1..n |-> InitH]
  /\ log = [m \in 1..n |-> InitLog]

\* upstreamautomerge is another program: it is not running.
NotRunning == [pc |-> "none", steps |-> <<>>, k |-> 0, commitsCounter |-> 0,
               calls |-> <<>>, committed |-> FALSE, err |-> NoErr]

Init ==
  /\ \/ InitWith(1, [{1} -> OneInputs], BOOLEAN)
     \/ InitWith(Len(PairInputs), Batches(Len(PairInputs), PairInputs), {FALSE})
     \/ InitWith(MaxMsgs, Batches(MaxMsgs, ManyInputs), {FALSE})
  /\ um = NotRunning

----------------------------------------------------------------------------
\* Actions.

Set(m, f) == [h EXCEPT ![m] = f]

Logged(m, f) == [log EXCEPT ![m] = f]

\* All orders in which a range over a map with key set S can visit its keys.
Orders(S) ==
  { o \in [1..Cardinality(S) -> S] : \A k \in S : \E j \in DOMAIN o : o[j] = k }

\* The return of handleMessage as it would be if it returned nil where it
\* returns the error.
Returned_NilOnError(m, err) ==
  /\ h' = Set(m, [h[m] EXCEPT !.at = "returned", !.ret = NoErr])
  /\ ErrorCounter' = IF err /= NoErr THEN ErrorCounterWith(ErrorCounter) ELSE ErrorCounter

\* handleMessage returns err before handleProwJob is called, or because
\* handleProwJob returned err: the error counter's child is looked up.
Returned(m, err) ==
  /\ h' = Set(m, [h[m] EXCEPT !.at = "returned", !.ret = err])
  /\ ErrorCounter' = IF err /= NoErr THEN ErrorCounterWith(ErrorCounter) ELSE ErrorCounter

\* handleProwJob up to the point where the labels are merged: decode, trim,
\* resolve, the cluster allow-list. All of it is local to the handler; fails is
\* the outcome of the inrepoconfig lookup, if the resolver makes one.
handleProwJob(m, jh, fails) ==
  LET d == FromPayload(inbox[m].payload)
      pe == [d.pe EXCEPT !.name = TrimSpace(@)]
      r == getProwJobSpec(jh, InRepoConfigCache, fails, pe)
      called == [log[m] EXCEPT !.resolve = @ + 1, !.res = r, !.dynFailed = fails,
                               !.decoded = d.pe,
                               !.trace = Append(@, "getProwJobSpec"),
                               !.base = IF r.labels = 0 THEN EmptyMap
                                        ELSE labelMaps[r.labels]]
      here == [h[m] EXCEPT !.jh = jh, !.pe = pe, !.spec = r.spec]
  IN IF d.err /= NoErr
     THEN /\ h' = Set(m, [h[m] EXCEPT !.at = "returned", !.ret = d.err, !.jh = jh])
          /\ ErrorCounter' = ErrorCounterWith(ErrorCounter)
          /\ UNCHANGED log
     ELSE IF r.err /= NoErr
     THEN /\ h' = Set(m, [here EXCEPT !.at = "report", !.err = r.err,
                            !.prowJob = NewProwJob(EmptySpec, EmptyMap, pe.annotations)])
          /\ log' = Logged(m, called)
          /\ UNCHANGED ErrorCounter
     ELSE IF r.isNil
     THEN /\ h' = Set(m, [here EXCEPT !.at = "returned", !.ret = ErrNilSpec])
          /\ ErrorCounter' = ErrorCounterWith(ErrorCounter)
          /\ log' = Logged(m, called)
     ELSE IF ~clusterIsAllowed(inbox[m].allowedClusters, r.spec.cluster)
     THEN /\ h' = Set(m, [here EXCEPT !.at = "report", !.err = ErrCluster,
                            !.prowJob = NewProwJob(r.spec, EmptyMap, pe.annotations)])
          /\ log' = Logged(m, called)
          /\ UNCHANGED ErrorCounter
     ELSE /\ h' = Set(m, [here EXCEPT !.at = "labels",
                            !.labels = IF r.labels = 0 THEN Fresh(m) ELSE r.labels,
                            !.todo = DOMAIN pe.labels])
          /\ log' = Logged(m, called)
          /\ UNCHANGED ErrorCounter

\* handleMessage: count the message, read the event type, select the handler
\* and call handleProwJob.
handleMessage(m) ==
  /\ h[m].at = "queued"
  /\ MessageCounter' = Inc(MessageCounter)
  /\ UNCHANGED <<inbox, InRepoConfigCache, labelMaps, pods>>
  /\ LET e == extractFromAttribute(inbox[m].attrs, prowEventType) IN
     IF e.err /= NoErr
     THEN Returned(m, e.err) /\ UNCHANGED log
     ELSE IF e.value \notin {periodicProwJobEvent, presubmitProwJobEvent,
                             postsubmitProwJobEvent}
     THEN Returned(m, ErrUnsupported) /\ UNCHANGED log
     ELSE \E fails \in (IF InRepoConfigCache /\ e.value /= periodicProwJobEvent
                        THEN BOOLEAN ELSE {FALSE}) :
            handleProwJob(m, e.value, fails)

\* One iteration of "for k, v := range pe.Labels { labels[k] = v }".
rangeLabels(m) ==
  /\ h[m].at = "labels"
  /\ \E k \in h[m].todo :
       /\ labelMaps' = [labelMaps EXCEPT ![h[m].labels] = (k :> h[m].pe.labels[k]) @@ @]
       /\ h' = Set(m, [h[m] EXCEPT !.todo = @ \ {k}])
       /\ log' = Logged(m, [log[m] EXCEPT !.writes = @ \cup {<<"labels", h[m].labels, 0>>}])
  /\ UNCHANGED <<inbox, InRepoConfigCache, pods, MessageCounter, ErrorCounter>>

\* prowJob = pjutil.NewProwJob(*prowJobSpec, labels, pe.Annotations), and the
\* test and range expression of the env loop.
buildProwJob(m) ==
  /\ h[m].at = "labels"
  /\ h[m].todo = {}
  /\ LET pod == h[m].spec.pod IN
     h' = Set(m, [h[m] EXCEPT
            !.prowJob = NewProwJob(h[m].spec, labelMaps[h[m].labels], h[m].pe.annotations),
            !.i = 1,
            !.at = IF pod /= 0 /\ Len(pods[pod]) > 0 THEN "env" ELSE "create"])
  /\ log' = Logged(m, [log[m] EXCEPT !.reads = @ \cup {<<"labels", h[m].labels, 0>>}])
  /\ UNCHANGED <<inbox, InRepoConfigCache, labelMaps, pods, MessageCounter, ErrorCounter>>

\* c.Env as it would be if an env of the event replaced the entries of its
\* name.
appended_Overwriting(env, envs, o) ==
  SelectSeq(env, LAMBDA e : e[1] \notin DOMAIN envs)
    \o [j \in DOMAIN o |-> <<o[j], envs[o[j]]>>]

\* c.Env after `for k, v := range pe.Envs { c.Env = append(c.Env, ...) }`
\* visited the keys in the order o: one entry more per env, at the end.
appended(env, envs, o) == env \o [j \in DOMAIN o |-> <<o[j], envs[o[j]]>>]

\* The inner loop of the env step for container i: c is a copy of the
\* container, and every env of the event is appended to c.Env.
appendEnv(m) ==
  /\ h[m].at = "env"
  /\ LET pod == h[m].prowJob.spec.pod
         envs == h[m].pe.envs
     IN \E o \in Orders(DOMAIN envs) :
          h' = Set(m, [h[m] EXCEPT
                 !.c = pods[pod][h[m].i],
                 !.cEnv = appended(pods[pod][h[m].i], envs, o),
                 !.at = "store"])
  /\ log' = Logged(m, [log[m] EXCEPT
               !.reads = @ \cup {<<"pod", h[m].prowJob.spec.pod, h[m].i>>}])
  /\ UNCHANGED <<inbox, InRepoConfigCache, labelMaps, pods, MessageCounter, ErrorCounter>>

\* prowJob.Spec.PodSpec.Containers[i].Env = c.Env
storeEnv(m) ==
  /\ h[m].at = "store"
  /\ LET pod == h[m].prowJob.spec.pod IN
     /\ pods' = [pods EXCEPT ![pod][h[m].i] = h[m].cEnv]
     /\ h' = Set(m, [h[m] EXCEPT !.i = @ + 1,
                       !.at = IF h[m].i < Len(pods[pod]) THEN "env" ELSE "create"])
     /\ log' = Logged(m, [log[m] EXCEPT !.writes = @ \cup {<<"pod", pod, h[m].i>>}])
  /\ UNCHANGED <<inbox, InRepoConfigCache, labelMaps, MessageCounter, ErrorCounter>>

\* What the sink is handed: the job, and the containers its pod spec points to.
Submitted(pj) ==
  [job |-> pj, containers |-> IF pj.spec.pod = 0 THEN <<>> ELSE pods[pj.spec.pod]]

\* s.ProwJobClient.Create(ctx, &prowJob, ...), which succeeds or fails.
Create(m) ==
  /\ h[m].at = "create"
  /\ \E ok \in BOOLEAN :
       h' = Set(m, [h[m] EXCEPT !.at = "report", !.err = IF ok THEN NoErr ELSE ErrCreate])
  /\ LET pod == h[m].prowJob.spec.pod IN
     log' = Logged(m, [log[m] EXCEPT
              !.create = @ + 1,
              !.trace = Append(@, "Create"),
              !.createErr = h'[m].err,
              !.created = Submitted(h[m].prowJob),
              !.reads = @ \cup (IF pod = 0 THEN {}
                                ELSE {<<"pod", pod, i>> : i \in 1..Len(pods[pod])})])
  /\ UNCHANGED <<inbox, InRepoConfigCache, labelMaps, pods, MessageCounter, ErrorCounter>>

\* Number of calls of fn in the sequence of calls.
Count(calls, fn) == Cardinality({ i \in DOMAIN calls : calls[i] = fn })

\* The calls as they would be if Report were called whatever ShouldReport
\* answers.
reporterCalls_Ungated(should) == <<"ShouldReport", "Report">>

\* The calls as they would be if a reporter that declines were asked twice.
reporterCalls_AskedAgain(should) ==
  IF should THEN <<"ShouldReport", "Report">> ELSE <<"ShouldReport", "ShouldReport">>

\* The calls reportProwJob makes on the reporter, given what ShouldReport
\* answers: Report only after ShouldReport answered true.
reporterCalls(should) ==
  IF should THEN <<"ShouldReport", "Report">> ELSE <<"ShouldReport">>

\* reportProwJob(pj, state, err) followed by the return of handleProwJob and
\* of handleMessage: should is what ShouldReport answers, failed whether Report
\* returns an error.
reportProwJob(m) ==
  /\ h[m].at = "report"
  /\ \E should \in BOOLEAN : \E failed \in (IF should THEN BOOLEAN ELSE {FALSE}) :
       LET pj == WithStatus(h[m].prowJob, h[m].err) IN
       /\ h' = Set(m, [h[m] EXCEPT !.prowJob = pj, !.at = "returned", !.ret = h[m].err])
       /\ log' = Logged(m, [log[m] EXCEPT
                    !.shouldReport = @ + Count(reporterCalls(should), "ShouldReport"),
                    !.should = should,
                    !.trace = @ \o reporterCalls(should),
                    !.offered = pj,
                    !.reported = IF Count(reporterCalls(should), "Report") > 0
                                 THEN pj ELSE @,
                    !.report = @ + Count(reporterCalls(should), "Report"),
                    !.reportFailed = failed])
  /\ ErrorCounter' = IF h[m].err /= NoErr THEN ErrorCounterWith(ErrorCounter)
                     ELSE ErrorCounter
  /\ UNCHANGED <<inbox, InRepoConfigCache, labelMaps, pods, MessageCounter>>

\* The caller as it would be if it rejected the messages whose handling failed.
Acknowledge_RejectOnError(m) ==
  /\ h[m].at = "returned"
  /\ h' = Set(m, [h[m] EXCEPT !.at = "acked"])
  /\ log' = Logged(m, IF h[m].ret = NoErr THEN [log[m] EXCEPT !.ack = @ + 1]
                      ELSE [log[m] EXCEPT !.nack = @ + 1])
  /\ UNCHANGED <<inbox, InRepoConfigCache, labelMaps, pods, MessageCounter, ErrorCounter>>

\* The caller of handleMessage acknowledges the message once handleMessage has
\* returned, whatever it returned.
Acknowledge(m) ==
  /\ h[m].at = "returned"
  /\ h' = Set(m, [h[m] EXCEPT !.at = "acked"])
  /\ log' = Logged(m, [log[m] EXCEPT !.ack = @ + 1])
  /\ UNCHANGED <<inbox, InRepoConfigCache, labelMaps, pods, MessageCounter, ErrorCounter>>

Next ==
  \/ \E m \in Msgs : handleMessage(m) /\ UNCHANGED um
  \/ \E m \in Msgs : rangeLabels(m) /\ UNCHANGED um
  \/ \E m \in Msgs : buildProwJob(m) /\ UNCHANGED um
  \/ \E m \in Msgs : appendEnv(m) /\ UNCHANGED um
  \/ \E m \in Msgs : storeEnv(m) /\ UNCHANGED um
  \/ \E m \in Msgs : Create(m) /\ UNCHANGED um
  \/ \E m \in Msgs : reportProwJob(m) /\ UNCHANGED um
  \/ \E m \in Msgs : Acknowledge(m) /\ UNCHANGED um

Spec == Init /\ [][Next]_vars

----------------------------------------------------------------------------
\* cmd/upstreamautomerge: runAndCommitIfNeeded and the loop of main over the
\* steps. A command is the sequence of the elements of its path; bumper.Call
\* and bumper.HasChanges are the environment, and succeed or fail.

\* The errors runAndCommitIfNeeded returns (the text that wraps the cause).
ErrRun == "failed to run"
ErrHasChanges == "error occurred when checking changes"
ErrGitAdd == "failed to 'git add .'"
ErrGitCommit == "fail to git commit"

\* The error bumper.Call or bumper.HasChanges fails with.
ErrExit == "exit status 1"

\* filepath.Base
Base(cmd) == IF cmd = <<>> THEN "." ELSE cmd[Len(cmd)]

\* fullCommand: the base name of the command and the arguments, space-joined;
\* the words of the line, in order.
fullCommand(cmd, args) == <<Base(cmd)>> \o args

gitCmd == <<"git">>

\* commitArgs
commitArgs(message, author) == <<"commit", "-m", message, "--author", author>>

Step(command, arguments) == [command |-> command, arguments |-> arguments]

\* The steps main may be given: as written its list of steps is empty.
StepSet == { Step(<<"usr", "bin", "go">>, <<"mod", "vendor">>),
             Step(<<"make">>, <<>>),
             Step(<<>>, <<"x">>) }

StepLists == UNION { [1..n -> StepSet] : n \in 0..MaxSteps }

TheAuthor == "name <email>"

InitCommit ==
  /\ InitWith(0, {<<>>}, {FALSE})
  /\ um \in { [NotRunning EXCEPT !.pc = "loop", !.steps = l, !.k = 1] : l \in StepLists }

\* A call of the environment: what was called, with what, and its error.
CallOf(fn, cmd, args, err) == [fn |-> fn, cmd |-> cmd, args |-> args, err |-> err]

Outcomes == {NoErr, ErrExit}

\* runAndCommitIfNeeded returns (false, err) when its step returned err.
Fails(err, wrapped) ==
  [um EXCEPT !.pc = "returned", !.committed = FALSE, !.err = wrapped]

\* main: `for _, step := range steps`, the call of runAndCommitIfNeeded for the
\* next step, or, after the last, the exit when nothing was committed.
mainLoop ==
  /\ um.pc = "loop"
  /\ um' = IF um.k <= Len(um.steps)
           THEN [um EXCEPT !.pc = "command", !.calls = <<>>, !.committed = FALSE,
                           !.err = NoErr]
           ELSE IF um.commitsCounter = 0 THEN [um EXCEPT !.pc = "exit"]
           ELSE [um EXCEPT !.pc = "push"]
  /\ UNCHANGED subscriber

\* bumper.Call(stdout, stderr, cmd, args...)
callCommand ==
  /\ um.pc = "command"
  /\ \E err \in Outcomes :
       LET step == um.steps[um.k]
           called == Append(um.calls, CallOf("Call", step.command, step.arguments, err))
       IN um' = IF err /= NoErr
                THEN [Fails(err, ErrRun) EXCEPT !.calls = called]
                ELSE [um EXCEPT !.pc = "changes", !.calls = called]
  /\ UNCHANGED subscriber

hasChanges_NoEarlyReturn ==
  /\ um.pc = "changes"
  /\ \E changed \in BOOLEAN : \E err \in Outcomes :
       LET called == Append(um.calls, CallOf("HasChanges", <<>>, <<changed>>, err))
       IN um' = IF err /= NoErr
                THEN [Fails(err, ErrHasChanges) EXCEPT !.calls = called]
                ELSE [um EXCEPT !.pc = "add", !.calls = called]
  /\ UNCHANGED subscriber

\* changed, err := bumper.HasChanges(), and the return when nothing changed.
hasChanges ==
  /\ um.pc = "changes"
  /\ \E changed \in BOOLEAN : \E err \in Outcomes :
       LET called == Append(um.calls, CallOf("HasChanges", <<>>, <<changed>>, err))
       IN um' = IF err /= NoErr
                THEN [Fails(err, ErrHasChanges) EXCEPT !.calls = called]
                ELSE IF ~changed
                THEN [um EXCEPT !.pc = "returned", !.committed = FALSE, !.err = NoErr,
                                !.calls = called]
                ELSE [um EXCEPT !.pc = "add", !.calls = called]
  /\ UNCHANGED subscriber

\* bumper.Call(stdout, stderr, gitCmd, "add", ".")
gitAdd ==
  /\ um.pc = "add"
  /\ \E err \in Outcomes :
       LET called == Append(um.calls, CallOf("Call", gitCmd, <<"add", ".">>, err))
       IN um' = IF err /= NoErr
                THEN [Fails(err, ErrGitAdd) EXCEPT !.calls = called]
                ELSE [um EXCEPT !.pc = "commit", !.calls = called]
  /\ UNCHANGED subscriber

\* bumper.Call(stdout, stderr, gitCmd, commitArgs...), and return true, nil.
gitCommit ==
  /\ um.pc = "commit"
  /\ \E err \in Outcomes :
       LET step == um.steps[um.k]
           args == commitArgs(fullCommand(step.command, step.arguments), TheAuthor)
           called == Append(um.calls, CallOf("Call", gitCmd, args, err))
       IN um' = IF err /= NoErr
                THEN [Fails(err, ErrGitCommit) EXCEPT !.calls = called]
                ELSE [um EXCEPT !.pc = "returned", !.committed = TRUE, !.err = NoErr,
                                !.calls = called]
  /\ UNCHANGED subscriber

\* main, after runAndCommitIfNeeded returned: Fatal on an error, else the
\* commit is counted and the loop goes on.
mainAfterStep ==
  /\ um.pc = "returned"
  /\ um' = IF um.err /= NoErr THEN [um EXCEPT !.pc = "fatal"]
           ELSE [um EXCEPT !.pc = "loop", !.k = @ + 1,
                           !.commitsCounter = IF um.committed THEN @ + 1 ELSE @]
  /\ UNCHANGED subscriber

NextCommit ==
  \/ mainLoop
  \/ callCommand
  \/ hasChanges
  \/ gitAdd
  \/ gitCommit
  \/ mainAfterStep

SpecCommit == InitCommit /\ [][NextCommit]_vars

----------------------------------------------------------------------------
\* Vocabulary of the properties.

Returned_(m) == h[m].at \in {"returned", "acked"}

EventTypes == {periodicProwJobEvent, presubmitProwJobEvent, postsubmitProwJobEvent}

HasType(m) == prowEventType \in DOMAIN inbox[m].attrs

\* The handler of m called the resolver, which succeeded.
ResolvedOk(m) == log[m].resolve = 1 /\ log[m].res.err = NoErr /\ ~log[m].res.isNil

\* No element of the allow-list of m is "*" or the cluster c.
NotListed(m, c) ==
  \A i \in DOMAIN inbox[m].allowedClusters :
     inbox[m].allowedClusters[i] /= "*" /\ inbox[m].allowedClusters[i] /= c

\* The candidates the resolver of m went through, and those among them that
\* have the event's name and accept its base branch.
Candidates(m) ==
  LET orgRepo == <<h[m].pe.refs.org, h[m].pe.refs.repo>> IN
  IF h[m].jh = presubmitProwJobEvent
  THEN IF InRepoConfigCache /\ ~log[m].dynFailed
       THEN GetPresubmits(orgRepo, FALSE).jobs ELSE GetPresubmitsStatic(orgRepo)
  ELSE IF InRepoConfigCache /\ ~log[m].dynFailed
       THEN GetPostsubmits(orgRepo, FALSE).jobs ELSE GetPostsubmitsStatic(orgRepo)

Matches(m) ==
  { i \in DOMAIN Candidates(m) :
      /\ JobDefs[Candidates(m)[i]].name = h[m].pe.name
      /\ h[m].pe.refs.baseRef \in JobDefs[Candidates(m)[i]].branches }

\* The refs of a presubmit event have everything the resolver requires.
CompleteRefs(refs) ==
  /\ refs.present /\ refs.org /= "" /\ refs.repo /= ""
  /\ refs.pulls /= <<>> /\ refs.baseSHA /= "" /\ refs.baseRef /= ""

\* The first thing a presubmit event's refs lack, as the error that names it.
FirstMissing(refs) ==
  CASE ~refs.present -> "Refs must be supplied"
    [] refs.present /\ refs.org = "" -> "org must be supplied"
    [] refs.present /\ refs.org /= "" /\ refs.repo = "" -> "repo must be supplied"
    [] refs.present /\ refs.org /= "" /\ refs.repo /= "" /\ refs.pulls = <<>> ->
         "at least 1 Pulls is required"
    [] refs.present /\ refs.org /= "" /\ refs.repo /= "" /\ refs.pulls /= <<>>
       /\ refs.baseSHA = "" -> "baseSHA must be supplied"
    [] OTHER -> "baseRef must be supplied"

\* Number of things a presubmit event's refs lack.
MissingCount(refs) ==
  Cardinality({ f \in {"org", "repo", "pulls", "baseSHA", "baseRef"} :
                  CASE f = "org" -> refs.org = ""
                    [] f = "repo" -> refs.repo = ""
                    [] f = "pulls" -> refs.pulls = <<>>
                    [] f = "baseSHA" -> refs.baseSHA = ""
                    [] f = "baseRef" -> refs.baseRef = "" })

----------------------------------------------------------------------------
\* C1. The cluster allow-list is fail-closed: when the resolver succeeded with
\* a cluster that no element of allowedClusters equals (and none is "*"), also
\* when allowedClusters is empty, Create is never called for the message, and
\* once the handler has returned it has returned the cluster error and the
\* reporter was offered a job with the resolved spec in state Error.
C1_AllowListFailClosed ==
  \A m \in Msgs :
    (ResolvedOk(m) /\ NotListed(m, log[m].res.spec.cluster)) =>
       /\ log[m].create = 0
       /\ h[m].at \in {"report", "returned", "acked"}
       /\ Returned_(m) =>
            /\ h[m].ret = ErrCluster
            /\ log[m].shouldReport = 1
            /\ log[m].offered.spec = log[m].res.spec
            /\ log[m].offered.state = ErrorState

C1_Witness ==
  \E m \in Msgs :
    /\ ResolvedOk(m) /\ NotListed(m, log[m].res.spec.cluster) /\ Returned_(m)
    /\ inbox[m].allowedClusters = <<"other">>
    /\ log[m].res.spec.cluster = "build"

\* C2. A presubmit event with incomplete refs is rejected by the resolver with
\* the error naming the first missing one of refs, org, repo, pulls, baseSHA,
\* baseRef, and no job is submitted for it.
C2_PresubmitRejectsIncompleteRefs ==
  \A m \in Msgs :
    (log[m].resolve = 1 /\ h[m].jh = presubmitProwJobEvent
       /\ ~CompleteRefs(h[m].pe.refs)) =>
       /\ log[m].res.err = FirstMissing(h[m].pe.refs)
       /\ log[m].create = 0
       /\ Returned_(m) => h[m].ret = FirstMissing(h[m].pe.refs)

C2_Witness ==
  \E m \in Msgs :
    /\ Returned_(m) /\ log[m].resolve = 1 /\ h[m].jh = presubmitProwJobEvent
    /\ h[m].pe.refs.present /\ MissingCount(h[m].pe.refs) >= 2
    /\ h[m].pe.refs.org /= "" /\ h[m].pe.refs.repo /= ""
    /\ h[m].ret = ErrPulls

\* A presubmit or postsubmit event whose refs passed the resolver's checks.
Checked(m) ==
  /\ log[m].resolve = 1
  /\ \/ h[m].jh = presubmitProwJobEvent /\ CompleteRefs(h[m].pe.refs)
     \/ h[m].jh = postsubmitProwJobEvent
          /\ CompleteRefs([h[m].pe.refs EXCEPT !.pulls = <<"any">>])

\* C3. Ambiguity is never silently resolved: when two or more candidates have
\* the event's name and accept its base branch, the presubmit or postsubmit
\* resolver fails with "matches multiple prow jobs", no candidate is selected,
\* and Create is never called for the message.
C3_AmbiguityIsAnError ==
  \A m \in Msgs :
    (Checked(m) /\ Cardinality(Matches(m)) >= 2) =>
       /\ log[m].res.err = ErrMultiple
       /\ log[m].res.def = 0
       /\ log[m].create = 0
       /\ Returned_(m) => h[m].ret = ErrMultiple

C3_Witness ==
  \E m \in Msgs :
    /\ Checked(m) /\ Cardinality(Matches(m)) >= 2 /\ Returned_(m)
    /\ h[m].jh = postsubmitProwJobEvent

\* C4. The presubmit resolver selects the unique branch-and-name match: when
\* exactly one candidate has the event's name and accepts its base branch, the
\* resolver succeeds with that definition's cluster and labels, whatever other
\* candidates of that name reject the branch.
C4_PresubmitSelectsUniqueMatch ==
  \A m \in Msgs :
    (Checked(m) /\ h[m].jh = presubmitProwJobEvent /\ Cardinality(Matches(m)) = 1) =>
       LET id == Candidates(m)[CHOOSE i \in Matches(m) : TRUE] IN
       /\ log[m].res.err = NoErr
       /\ log[m].res.def = id
       /\ log[m].res.spec.cluster = JobDefs[id].cluster
       /\ log[m].res.labels = JobDefs[id].labels

C4_Witness ==
  \E m \in Msgs :
    /\ Checked(m) /\ h[m].jh = presubmitProwJobEvent /\ Cardinality(Matches(m)) = 1
    /\ Cardinality({ i \in DOMAIN Candidates(m) :
                       JobDefs[Candidates(m)[i]].name = h[m].pe.name }) >= 2
    /\ inbox[m].event.name /= h[m].pe.name
    /\ log[m].create = 1

\* The overlay of the labels ev on the labels base: every key of either, with
\* the value of ev where ev has the key.
Overlay(base, ev) ==
  [k \in DOMAIN base \cup DOMAIN ev |-> IF k \in DOMAIN ev THEN ev[k] ELSE base[k]]

\* C5. Label merge, event wins: the labels of the job handed to the sink are
\* the overlay of the event's labels on the base labels the resolver returned
\* (no labels when it returned nil).
C5_LabelMergeEventWins ==
  \A m \in Msgs :
    log[m].create = 1 =>
      log[m].created.job.labels = Overlay(log[m].base, h[m].pe.labels)

\* C5 for a message that is handled alone.
C5_Alone ==
  \A m \in Msgs :
    (log[m].create = 1 /\ Cardinality(Msgs) = 1) =>
      log[m].created.job.labels = Overlay(log[m].base, h[m].pe.labels)

\* C6. Handling a message leaves the catalog unchanged: the label maps and the
\* pod specs of the job definitions are what they were when loaded.
C6_CatalogUnchanged ==
  /\ \A a \in JobIds : labelMaps[a] = InitLabels[a]
  /\ pods = InitPods

\* The env lists a container with the list env can have after the env step of
\* an event with the envs envs: env, then one entry per env in some order.
Injected(env, envs) ==
  { env \o [j \in DOMAIN o |-> <<o[j], envs[o[j]]>>] : o \in Orders(DOMAIN envs) }

\* The job that is submitted for m when m is handled alone against the catalog
\* as loaded has these labels, and one of these lists of containers.
AloneLabels(m) ==
  Overlay(IF log[m].res.labels = 0 THEN EmptyMap ELSE InitLabels[log[m].res.labels],
          h[m].pe.labels)

AloneContainers(m) ==
  LET pod == log[m].res.spec.pod IN
  IF pod = 0 THEN {<<>>}
  ELSE { c \in [DOMAIN InitPods[pod] ->
                  UNION {Injected(InitPods[pod][i], h[m].pe.envs) : i \in DOMAIN InitPods[pod]}] :
           \A i \in DOMAIN InitPods[pod] : c[i] \in Injected(InitPods[pod][i], h[m].pe.envs) }

\* C7. Messages are handled independently: the job submitted for a message is
\* the job submitted when it is handled alone, and no handler writes a location
\* that another handler reads or writes.
C7_MessagesIndependent ==
  /\ \A m \in Msgs :
       log[m].create = 1 =>
         /\ log[m].created.job.labels = AloneLabels(m)
         /\ log[m].created.containers \in AloneContainers(m)
  /\ \A m1 \in Msgs : \A m2 \in Msgs \ {m1} :
       log[m1].writes \cap (log[m2].reads \cup log[m2].writes) = {}

\* C8. Exactly-once acknowledgement: a message is acknowledged once, after its
\* handler has returned and whatever it returned; it is never rejected, and
\* the system stops only when every message has been acknowledged.
C8_AcknowledgedOnce ==
  \A m \in Msgs :
    /\ log[m].nack = 0
    /\ log[m].ack = IF h[m].at = "acked" THEN 1 ELSE 0
    /\ h[m].at = "acked" => h[m].ret /= "none"
    /\ h[m].at = "returned" => ENABLED Acknowledge(m)

C8_Witness ==
  \E m \in Msgs :
    /\ h[m].at = "acked" /\ log[m].ack = 1
    /\ h[m].ret = ErrCluster

\* C9. The error counter of the subscription equals the number of handleMessage
\* calls that have returned an error.
C9_ErrorCounterCountsErrors ==
  ErrorCounter = Cardinality({ m \in Msgs : Returned_(m) /\ h[m].ret /= NoErr })

\* C10. Nothing downstream runs for an unroutable or undecodable message: the
\* resolver, Create, ShouldReport and Report are called only for a message that
\* has the event-type attribute with one of the three event types and a payload
\* that decodes; otherwise handleMessage returns an error (for an unknown type,
\* the unsupported-event error).
C10_NothingDownstream ==
  \A m \in Msgs :
    LET routable == HasType(m) /\ inbox[m].attrs[prowEventType] \in EventTypes
                    /\ inbox[m].payload.valid
    IN /\ (log[m].resolve + log[m].create + log[m].shouldReport + log[m].report > 0)
            => routable
       /\ (Returned_(m) /\ ~HasType(m)) => h[m].ret = ErrNoAttribute
       /\ (Returned_(m) /\ HasType(m) /\ inbox[m].attrs[prowEventType] \notin EventTypes)
            => h[m].ret = ErrUnsupported
       /\ (Returned_(m) /\ ~routable) => h[m].ret /= NoErr

C10_Witness ==
  \E m \in Msgs :
    /\ Returned_(m) /\ HasType(m) /\ inbox[m].attrs[prowEventType] \in EventTypes
    /\ ~inbox[m].payload.valid
    /\ h[m].ret = ErrDecode

\* C11. An event the resolver fails on still gets a reportable record: Create
\* is never called for it, and once the handler has returned, the reporter
\* was offered exactly one job, with the empty spec, no labels, the event's
\* annotations, state Error and a failure description carrying the
\* resolver's error, and the handler returned exactly the resolver's error.
C11_UnresolvableStillReported ==
  \A m \in Msgs :
    (log[m].resolve = 1 /\ log[m].res.err /= NoErr) =>
       /\ log[m].create = 0
       /\ h[m].at \in {"report", "returned", "acked"}
       /\ Returned_(m) =>
            /\ log[m].shouldReport = 1
            /\ log[m].offered.spec = EmptySpec
            /\ log[m].offered.labels = EmptyMap
            /\ log[m].offered.annotations = FromPayload(inbox[m].payload).pe.annotations
            /\ log[m].offered.state = ErrorState
            /\ log[m].offered.description =
                 [text |-> "Failed creating prowjob: ", err |-> log[m].res.err]
            /\ h[m].ret = log[m].res.err

C11_Witness ==
  \E m \in Msgs :
    /\ Returned_(m) /\ log[m].resolve = 1
    /\ log[m].res.err = ErrNoPresubmit
    /\ log[m].offered.annotations /= EmptyMap
    /\ log[m].offered.description.err = ErrNoPresubmit

\* C12. The outcome of the submission is mapped onto the job and the return
\* value: once Create was called and the handler has returned, the reporter
\* was offered the submitted job exactly once; if Create failed, in state
\* Error with the sink's error in its description, and the handler returned
\* the sink's error; if Create succeeded, in state Triggered, and the
\* handler returned nil.
C12_SubmissionOutcomeMapped ==
  \A m \in Msgs :
    (log[m].create = 1 /\ Returned_(m)) =>
       /\ log[m].shouldReport = 1
       /\ log[m].offered.spec = log[m].created.job.spec
       /\ log[m].offered.labels = log[m].created.job.labels
       /\ log[m].createErr /= NoErr =>
            /\ log[m].createErr = ErrCreate
            /\ log[m].offered.state = ErrorState
            /\ log[m].offered.description.err = ErrCreate
            /\ h[m].ret = ErrCreate
       /\ log[m].createErr = NoErr =>
            /\ log[m].offered.state = TriggeredState
            /\ log[m].offered.description =
                 [text |-> "Successfully triggered prowjob.", err |-> NoErr]
            /\ h[m].ret = NoErr

C12_Witness ==
  \E m \in Msgs :
    /\ log[m].create = 1 /\ Returned_(m)
    /\ log[m].createErr = ErrCreate /\ h[m].ret = ErrCreate
    /\ log[m].offered.state = ErrorState

\* The name s without its leading and trailing white space.
Trimmed(s) ==
  LET inked == { i \in DOMAIN s : s[i] \notin {" ", "\t", "\n"} } IN
  IF inked = {} THEN <<>>
  ELSE SubSeq(s, CHOOSE i \in inked : \A j \in inked : i <= j,
                 CHOOSE i \in inked : \A j \in inked : j <= i)

\* The definition the catalog has for the event m decoded, under its trimmed
\* name: the first periodic of that name, the one presubmit or postsubmit of
\* that name that accepts the base branch; 0 if it has none or several.
DefinitionFor(m) ==
  LET name == Trimmed(log[m].decoded.name)
      named(jobs) == { i \in DOMAIN jobs : JobDefs[jobs[i]].name = name }
      accepting == { i \in named(Candidates(m)) :
                       h[m].pe.refs.baseRef \in JobDefs[Candidates(m)[i]].branches }
  IN IF log[m].resolve /= 1 THEN 0
     ELSE IF h[m].jh = periodicProwJobEvent
     THEN IF named(AllPeriodics) = {} THEN 0
          ELSE AllPeriodics[CHOOSE i \in named(AllPeriodics) :
                              \A j \in named(AllPeriodics) : i <= j]
     ELSE IF Checked(m) /\ Cardinality(accepting) = 1
     THEN Candidates(m)[CHOOSE i \in accepting : TRUE]
     ELSE 0

\* The handler of m is between the resolver and Create, and can take a step.
OnTheWay(m) ==
  /\ h[m].at \in {"labels", "env", "store", "create"}
  /\ log[m].create = 0
  /\ ENABLED (rangeLabels(m) \/ buildProwJob(m) \/ appendEnv(m) \/ storeEnv(m) \/ Create(m))

\* C13. A resolvable, allowed event is submitted: when the event of a
\* supported class has a catalog definition under its white-space-trimmed
\* name and the definition's cluster is on the allow-list (equal to an
\* element, or an element is "*"), the resolver succeeds with that definition
\* and the handler goes on, never stuck, to call Create exactly once with a
\* job whose spec is the resolved spec; and if Create succeeded, the state
\* the reporter is offered is Triggered.
C13_ResolvableAllowedIsSubmitted ==
  \A m \in Msgs :
    (DefinitionFor(m) /= 0 /\ ~NotListed(m, JobDefs[DefinitionFor(m)].cluster)) =>
       /\ log[m].res.err = NoErr
       /\ log[m].res.def = DefinitionFor(m)
       /\ OnTheWay(m) \/ log[m].create = 1
       /\ log[m].create = 1 =>
            /\ log[m].created.job.spec = log[m].res.spec
            /\ log[m].created.job.spec.cluster = JobDefs[DefinitionFor(m)].cluster
       /\ (Returned_(m) /\ log[m].createErr = NoErr) =>
            /\ log[m].shouldReport = 1
            /\ log[m].offered.state = TriggeredState

C13_Witness ==
  \E m \in Msgs :
    /\ DefinitionFor(m) /= 0 /\ ~NotListed(m, JobDefs[DefinitionFor(m)].cluster)
    /\ inbox[m].event.name /= Trimmed(inbox[m].event.name)
    /\ "*" \notin { inbox[m].allowedClusters[i] : i \in DOMAIN inbox[m].allowedClusters }
    /\ Returned_(m) /\ log[m].create = 1 /\ log[m].createErr = NoErr
    /\ log[m].offered.state = TriggeredState

\* The value handleProwJob returns on the path the handler of m took.
Outcome(m) ==
  IF log[m].create = 1 THEN log[m].createErr
  ELSE IF log[m].res.err /= NoErr THEN log[m].res.err
  ELSE ErrCluster

\* C14. Reporting is gated and best-effort: Report is called only right after
\* ShouldReport answered true for the same job, and never when it answered
\* false; and whether Report fails does not change what the handler returns.
C14_ReportGatedBestEffort ==
  \A m \in Msgs :
    /\ log[m].report <= log[m].shouldReport
    /\ \A i \in DOMAIN log[m].trace :
         log[m].trace[i] = "Report" =>
            /\ i > 1 /\ log[m].trace[i - 1] = "ShouldReport"
            /\ log[m].should
            /\ log[m].reported = log[m].offered
    /\ (log[m].shouldReport = 1 /\ ~log[m].should) => log[m].report = 0
    /\ (log[m].shouldReport = 1 /\ Returned_(m)) => h[m].ret = Outcome(m)

C14_Witness ==
  \E m \in Msgs :
    /\ Returned_(m) /\ log[m].report = 1 /\ log[m].reportFailed
    /\ log[m].create = 1 /\ h[m].ret = NoErr

\* The static and the dynamic catalog's definitions for the kind of event m
\* has, as sets.
StaticDefs(m) ==
  LET orgRepo == <<h[m].pe.refs.org, h[m].pe.refs.repo>>
      jobs == IF h[m].jh = presubmitProwJobEvent THEN GetPresubmitsStatic(orgRepo)
              ELSE GetPostsubmitsStatic(orgRepo)
  IN { jobs[i] : i \in DOMAIN jobs }

DynamicDefs(m) ==
  LET orgRepo == <<h[m].pe.refs.org, h[m].pe.refs.repo>>
      jobs == IF h[m].jh = presubmitProwJobEvent THEN GetPresubmits(orgRepo, FALSE).jobs
              ELSE GetPostsubmits(orgRepo, FALSE).jobs
  IN { jobs[i] : i \in DOMAIN jobs }

\* Those of the definitions defs that have the event's name and accept its
\* base branch.
Eligible(m, defs) ==
  { id \in defs : /\ JobDefs[id].name = h[m].pe.name
                  /\ h[m].pe.refs.baseRef \in JobDefs[id].branches }

\* The resolver of m answered as it does when its candidates are defs.
ResolvedAmong(m, defs) ==
  /\ Cardinality(Eligible(m, defs)) = 0 =>
        log[m].res.err = IF h[m].jh = presubmitProwJobEvent THEN ErrNoPresubmit
                         ELSE ErrNoPostsubmit
  /\ Cardinality(Eligible(m, defs)) = 1 =>
        log[m].res.err = NoErr /\ log[m].res.def \in Eligible(m, defs)
  /\ Cardinality(Eligible(m, defs)) >= 2 => log[m].res.err = ErrMultiple

\* C15. The dynamic catalog is best-effort and replaces the static one: a
\* presubmit or postsubmit event with complete refs is resolved among exactly
\* the dynamic catalog's definitions when the dynamic source is configured and
\* its lookup succeeds (a static definition the dynamic result lacks is no
\* candidate), and among exactly the static definitions when the source is not
\* configured or its lookup fails; the lookup's failure is never the error
\* the resolver returns.
C15_DynamicCatalogReplaces ==
  \A m \in Msgs :
    Checked(m) =>
       /\ (InRepoConfigCache /\ ~log[m].dynFailed) => ResolvedAmong(m, DynamicDefs(m))
       /\ (~InRepoConfigCache \/ log[m].dynFailed) => ResolvedAmong(m, StaticDefs(m))
       /\ log[m].res.err \in {NoErr, ErrMultiple, ErrNoPresubmit, ErrNoPostsubmit}

C15_Witness ==
  \E m \in Msgs :
    /\ Checked(m) /\ InRepoConfigCache /\ ~log[m].dynFailed
    /\ Cardinality(Eligible(m, StaticDefs(m))) >= 2
    /\ Eligible(m, StaticDefs(m)) \ DynamicDefs(m) /= {}
    /\ Cardinality(Eligible(m, DynamicDefs(m))) = 1
    /\ log[m].res.err = NoErr /\ log[m].create = 1

\* The message m is what ToMessage makes of the event its publisher encoded,
\* and the handler of m has decoded it into a new event.
RoundTripped(m) ==
  /\ inbox[m].attrs = ToMessage(inbox[m].event).Attributes
  /\ inbox[m].payload = ToMessage(inbox[m].event).Data
  /\ log[m].resolve = 1

\* The event d is equal to the event e on every field e populates.
EqualOnPopulated(d, e) ==
  /\ d.name = e.name
  /\ e.refs.present => d.refs = e.refs
  /\ e.envs /= EmptyMap => d.envs = e.envs
  /\ e.labels /= EmptyMap => d.labels = e.labels
  /\ e.annotations /= EmptyMap => d.annotations = e.annotations

\* Every character of s is valid UTF-8.
ValidUTF8(s) == \A i \in DOMAIN s : s[i] /= InvalidByte

\* C16 as stated. The codec round-trips every event: decoding the payload
\* ToMessage made of an event e into a new event yields an event equal to e
\* on every populated field (name, refs, envs, labels, annotations).
C16_RoundTrip ==
  \A m \in Msgs :
    RoundTripped(m) => EqualOnPopulated(log[m].decoded, inbox[m].event)

\* C16, amended. The codec round-trips every event whose strings are valid
\* UTF-8: decoding the payload ToMessage made of such an event e into a new
\* event yields an event equal to e on every populated field (name, refs,
\* envs, labels, annotations).
C16_RoundTripValidUTF8 ==
  \A m \in Msgs :
    (RoundTripped(m) /\ ValidUTF8(inbox[m].event.name)) =>
       EqualOnPopulated(log[m].decoded, inbox[m].event)

C16_Witness ==
  \E m \in Msgs :
    /\ RoundTripped(m) /\ ValidUTF8(inbox[m].event.name)
    /\ inbox[m].event.name /= <<>>
    /\ inbox[m].event.refs.present /\ inbox[m].event.refs.pulls /= <<>>
    /\ inbox[m].event.refs.baseRef /= ""
    /\ Cardinality(DOMAIN inbox[m].event.envs) = 2
    /\ inbox[m].event.labels /= EmptyMap
    /\ log[m].decoded = inbox[m].event

\* The positions of the calls of fn in the trace of the handler of m.
Calls(m, fn) == { i \in DOMAIN log[m].trace : log[m].trace[i] = fn }

\* C17. The calls of one handling are ordered: Create is called at most once;
\* the reporter is invoked at most once (ShouldReport, then possibly Report);
\* when both happen the reporter is invoked after Create has returned; the
\* job's state and description are set before the reporter is invoked and
\* the handler does not change them afterwards.
C17_CallOrdering ==
  \A m \in Msgs :
    /\ Cardinality(Calls(m, "Create")) <= 1
    /\ Cardinality(Calls(m, "ShouldReport")) <= 1
    /\ Cardinality(Calls(m, "Report")) <= 1
    /\ log[m].create = Cardinality(Calls(m, "Create"))
    /\ log[m].shouldReport = Cardinality(Calls(m, "ShouldReport"))
    /\ \A c \in Calls(m, "Create") :
         \A r \in Calls(m, "ShouldReport") \cup Calls(m, "Report") : c < r
    /\ \A r \in Calls(m, "Report") : \E q \in Calls(m, "ShouldReport") : q < r
    /\ Calls(m, "ShouldReport") /= {} =>
         /\ log[m].offered.state \in {ErrorState, TriggeredState}
         /\ log[m].offered.description.text /= ""
         /\ h[m].prowJob.state = log[m].offered.state
         /\ h[m].prowJob.description = log[m].offered.description

C17_Witness ==
  \E m \in Msgs :
    /\ h[m].at = "acked"
    /\ log[m].trace = <<"getProwJobSpec", "Create", "ShouldReport", "Report">>
    /\ h[m].prowJob.state = ErrorState

PeriodicsNamed(m) ==
  { i \in DOMAIN AllPeriodics : JobDefs[AllPeriodics[i]].name = h[m].pe.name }

\* C19. The periodic resolver matches by exact name, and the first match
\* wins: whatever refs the event has, it answers with the spec and the labels
\* of the first entry of the periodic list whose name is the event's name,
\* also when several entries have that name, and fails with "failed to find
\* associated periodic job" when no entry has it.
C19_PeriodicFirstMatchWins ==
  \A m \in Msgs :
    (log[m].resolve = 1 /\ h[m].jh = periodicProwJobEvent) =>
       IF PeriodicsNamed(m) = {}
       THEN /\ log[m].res.err = ErrNoPeriodic
            /\ log[m].res.def = 0
            /\ log[m].create = 0
       ELSE LET first == AllPeriodics[CHOOSE i \in PeriodicsNamed(m) :
                                        \A j \in PeriodicsNamed(m) : i <= j]
            IN /\ log[m].res.err = NoErr
               /\ log[m].res.def = first
               /\ log[m].res.spec.job = JobDefs[first].name
               /\ log[m].res.spec.cluster = JobDefs[first].cluster
               /\ log[m].res.spec.pod = JobDefs[first].pod
               /\ log[m].res.spec.refs = NilRefs
               /\ log[m].res.labels = JobDefs[first].labels

C19_Witness ==
  \E m \in Msgs :
    /\ log[m].resolve = 1 /\ h[m].jh = periodicProwJobEvent
    /\ Cardinality(PeriodicsNamed(m)) >= 2
    /\ h[m].pe.refs.present /\ h[m].pe.refs.baseRef = "release"
    /\ log[m].res.def = AllPeriodics[1]
    /\ JobDefs[AllPeriodics[2]].cluster /= log[m].res.spec.cluster
    /\ log[m].create = 1

\* What a postsubmit event's refs lack first, of the refs themselves, org,
\* repo, baseSHA and baseRef in that order, as the error that names it;
\* "nil" if they lack none of them.
FirstMissingPostsubmit(refs) ==
  LET lacks == << ~refs.present, refs.org = "", refs.repo = "",
                  refs.baseSHA = "", refs.baseRef = "" >>
      names == << "refs must be supplied", "org must be supplied",
                  "repo must be supplied", "baseSHA must be supplied",
                  "baseRef must be supplied" >>
      missing == { i \in DOMAIN lacks : lacks[i] }
  IN IF missing = {} THEN "nil"
     ELSE names[CHOOSE i \in missing : \A j \in missing : i <= j]

\* C20. The postsubmit resolver does not require pulls: a postsubmit event
\* whose refs have org, repo, baseSHA and baseRef passes the checks with or
\* without pulls, and is matched against the candidates as a presubmit is (no
\* match: "failed to find associated postsubmit job"; one: that definition;
\* several: "matches multiple prow jobs"); one whose refs lack any of the
\* refs themselves, org, repo, baseSHA, baseRef fails with the error naming
\* the first of these it lacks, and nothing is submitted for it.
C20_PostsubmitNeedsNoPulls ==
  \A m \in Msgs :
    (log[m].resolve = 1 /\ h[m].jh = postsubmitProwJobEvent) =>
       IF FirstMissingPostsubmit(h[m].pe.refs) = "nil"
       THEN /\ Cardinality(Matches(m)) = 0 =>
                 log[m].res.err = ErrNoPostsubmit /\ log[m].create = 0
            /\ Cardinality(Matches(m)) = 1 =>
                 /\ log[m].res.err = NoErr
                 /\ log[m].res.def = Candidates(m)[CHOOSE i \in Matches(m) : TRUE]
                 /\ log[m].res.spec.refs = h[m].pe.refs
            /\ Cardinality(Matches(m)) >= 2 =>
                 log[m].res.err = ErrMultiple /\ log[m].create = 0
       ELSE /\ log[m].res.err = FirstMissingPostsubmit(h[m].pe.refs)
            /\ log[m].create = 0
            /\ Returned_(m) => h[m].ret = FirstMissingPostsubmit(h[m].pe.refs)

C20_Witness ==
  \E m \in Msgs :
    /\ log[m].resolve = 1 /\ h[m].jh = postsubmitProwJobEvent
    /\ h[m].pe.refs.present /\ h[m].pe.refs.pulls = <<>>
    /\ FirstMissingPostsubmit(h[m].pe.refs) = "nil"
    /\ Cardinality(Matches(m)) = 1
    /\ log[m].create = 1 /\ Returned_(m) /\ h[m].ret = NoErr

\* C21. The handler returns nil if and only if Create was called for the
\* message and succeeded: wherever Create is not reached (no event type or an
\* unsupported one, a payload that does not decode, a resolver error, a
\* cluster not allowed) or Create fails, it returns an error, whatever
\* ShouldReport and Report answer.
C21_NilIffCreated ==
  \A m \in Msgs :
    Returned_(m) =>
       /\ h[m].ret = NoErr <=> (log[m].create = 1 /\ log[m].createErr = NoErr)
       /\ (~HasType(m) \/ inbox[m].attrs[prowEventType] \notin EventTypes
             \/ ~inbox[m].payload.valid) =>
            h[m].ret /= NoErr /\ log[m].create = 0
       /\ (log[m].resolve = 1 /\ log[m].res.err /= NoErr) => h[m].ret /= NoErr
       /\ (ResolvedOk(m) /\ NotListed(m, log[m].res.spec.cluster)) => h[m].ret /= NoErr
       /\ (log[m].create = 1 /\ log[m].createErr /= NoErr) => h[m].ret /= NoErr

C21_Witness ==
  \E m \in Msgs :
    /\ Returned_(m) /\ h[m].ret = NoErr
    /\ log[m].create = 1 /\ log[m].createErr = NoErr
    /\ log[m].report = 1 /\ log[m].reportFailed

\* The k-th call runAndCommitIfNeeded has made is a call of the command of the
\* step (1), the change check (2), git add (3) or git commit (4).
IsStep(k, call) ==
  LET step == um.steps[um.k] IN
  CASE k = 1 -> call.fn = "Call" /\ call.cmd = step.command
                  /\ call.args = step.arguments
    [] k = 2 -> call.fn = "HasChanges"
    [] k = 3 -> call.fn = "Call" /\ call.cmd = <<"git">> /\ call.args = <<"add", ".">>
    [] k = 4 -> call.fn = "Call" /\ call.cmd = <<"git">> /\ call.args[1] = "commit"
    [] OTHER -> FALSE

\* The k-th call ended the run: it failed, or it found no changes.
Stops(k, call) == call.err /= "nil" \/ (k = 2 /\ call.args = <<FALSE>>)

\* C22. runAndCommitIfNeeded runs its steps strictly in the order command,
\* change check, git add, git commit, and stops at the first failure: no step
\* is run after one that failed or after a change check that found nothing;
\* it returns (true, nil) only when all four were run and succeeded and
\* changes were detected, (false, nil) when the command succeeded and no
\* changes were detected, without git add or git commit, and (false, error)
\* when the last step it ran failed, and it returns then.
C22_StepsInOrderStopAtFailure ==
  (um.pc \notin {"none", "loop", "exit", "push"}) =>
     /\ Len(um.calls) <= 4
     /\ \A k \in DOMAIN um.calls : IsStep(k, um.calls[k])
     /\ \A k \in DOMAIN um.calls : k < Len(um.calls) => ~Stops(k, um.calls[k])
     /\ um.pc = "command" <=> um.calls = <<>>
     /\ (um.calls /= <<>> /\ Stops(Len(um.calls), um.calls[Len(um.calls)])) =>
           um.pc \in {"returned", "fatal"}
     /\ um.pc \in {"returned", "fatal"} =>
          LET n == Len(um.calls) IN
          /\ n >= 1
          /\ (um.committed /\ um.err = "nil") <=>
               (n = 4 /\ \A k \in 1..4 : um.calls[k].err = "nil")
          /\ (~um.committed /\ um.err = "nil") <=>
               (n = 2 /\ um.calls[1].err = "nil" /\ um.calls[2].err = "nil"
                      /\ um.calls[2].args = <<FALSE>>)
          /\ um.err /= "nil" <=> um.calls[n].err /= "nil"
          /\ um.err /= "nil" =>
               /\ ~um.committed
               /\ um.err = << "failed to run", "error occurred when checking changes",
                              "failed to 'git add .'", "fail to git commit" >>[n]

C22_Witness ==
  /\ um.pc = "returned" /\ um.k = 2 /\ um.commitsCounter = 0
  /\ um.committed /\ um.err = "nil" /\ Len(um.calls) = 4
  /\ um.calls[4].args = <<"commit", "-m", <<"go", "mod", "vendor">>, "--author",
                          "name <email>">>

====
